---- MODULE Spec2Model ----
(***************************************************************************)
(* A model of src/lib.py: one invocation of benchmark(ctx, day, part,      *)
(* code), from the database connection to the reply sent to the caller.    *)
(*                                                                         *)
(* Python values that may be None are boxed: None is the empty sequence    *)
(* and a value x is the one-element sequence <<x>>.  A function that may   *)
(* raise yields a record [raised, value].                                  *)
(***************************************************************************)
EXTENDS Integers, Sequences, FiniteSets, TLC

\* Largest number of input files in the day's input directory.
MaxFiles == 2
\* Largest number of lines in the output of one sandbox run.
MaxLines == 2

None == <<>>
Some(x) == <<x>>

\* The outcome of a call: the value returned, or the class of the
\* exception raised.
Returned(v) == [raised |-> FALSE, value |-> v]
Raised(e) == [raised |-> TRUE, value |-> e]

\* File names of the input corpus; a day holds a prefix of them.
InputNames == <<"a.txt", "b.txt", "c.txt", "d.txt">>

----------------------------------------------------------------------------
(* The line protocol of the sandboxed run step.                            *)

\* Estimates of the two statistics events the model draws from.
Stats1 == [typical |-> [estimate |-> 1500000, upper_bound |-> 1700000, lower_bound |-> 1400000],
           mean    |-> [estimate |-> 1600000],
           median  |-> [estimate |-> 1550000]]
Stats2 == [typical |-> [estimate |-> 2500, upper_bound |-> 2700, lower_bound |-> 2400],
           mean    |-> [estimate |-> 2600],
           median  |-> [estimate |-> 2550]]

AnswerBlob(a) == [reason |-> "ferris-answer", answer |-> a]
StatsBlob(s) == [reason |-> "benchmark-complete", typical |-> s.typical,
                 mean |-> s.mean, median |-> s.median]

\* The decoded JSON objects a run can print: answer events (a string or
\* null), an answer event without its answer field, statistics events, an
\* object with another discriminator and an object with none.
Blobs == {AnswerBlob(Some("42")), AnswerBlob(Some("41")), AnswerBlob(None),
          [reason |-> "ferris-answer"],
          StatsBlob(Stats1), StatsBlob(Stats2),
          [reason |-> "compiler-message"],
          [level |-> "info"]}

\* A line of the decoded output, as str.splitlines yields it: its first
\* character ("" for an empty line, "x" for any character but "{") and the
\* object json.loads makes of it (None when the text is no JSON document).
EmptyLine == [first |-> "", json |-> None]
TextLine == [first |-> "x", json |-> None]
BadLine == [first |-> "{", json |-> None]
EventLine(b) == [first |-> "{", json |-> Some(b)]

Lines == {EmptyLine, TextLine, BadLine} \cup {EventLine(b) : b \in Blobs}

SeqsUpTo(S, n) == UNION {[1..k -> S] : k \in 0..n}

Outputs == SeqsUpTo(Lines, MaxLines)

----------------------------------------------------------------------------
VARIABLES
    pc,           \* the statement benchmark() executes next
    day_files,    \* environment: the files of the day's input directory
    solutions,    \* environment: rows (key, answer2) of solutions for (day, part)
    tmpdir,       \* the TemporaryDirectory: "none", "exists" or "deleted"
    inputs,       \* the entries of tmpdir/inputs (path and kind)
    stale,        \* history: what load_input found in tmpdir/inputs
    answers_map,  \* benchmark's local answers_map
    files,        \* the list get_input_files(day) returned
    idx,          \* number of files the for loop has finished
    out,          \* the decoded output of the sandbox run being scored
    result_lst,   \* benchmark's local result_lst (boxed: run_code is Optional)
    result,       \* benchmark's local result (boxed: None before line 50)
    results,      \* benchmark's local results
    db_pending,   \* rows inserted in the open transaction
    db_runs,      \* rows of the runs table that are committed
    replies,      \* what ctx.reply has sent, in order
    exc,          \* the exception the try block raised, and the statement
    build_ok,     \* history: outcome of build_code ("none", "ok", "failed", "error")
    staged,       \* history: number of load_input calls
    runs,         \* history: number of sandbox runs started
    destroyed,    \* history: number of times tmpdir was deleted
    best,         \* what the last call of get_best_times returned (boxed)
    shown,        \* the last call of ns: its argument and its text (boxed)
    invs,         \* concurrent invocations: where each is, its tmpdir, its file
    dirs,         \* the temporary directories by name: state, creator, inputs
    last_ops      \* history: the workspace operations of the last step

vars == <<pc, day_files, solutions, tmpdir, inputs, stale, answers_map, files, idx, out,
          result_lst, result, results, db_pending, db_runs, replies, exc,
          build_ok, staged, runs, destroyed, best, shown, invs, dirs, last_ops>>

\* The state one invocation of benchmark() does not touch.
conc == <<invs, dirs, last_ops>>
outside == <<best, shown, conc>>

\* Every variable of the invocation but the runs table.
locals == <<pc, day_files, solutions, tmpdir, inputs, stale, answers_map, files, idx,
            out, result_lst, result, results, db_pending, replies, exc, build_ok,
            staged, runs, destroyed>>

env == <<day_files, solutions>>
workspace == <<tmpdir, inputs, destroyed>>

NoExc == [type |-> "none", at |-> "none"]

----------------------------------------------------------------------------
(* Pure functions of lib.py.                                                *)

\* dict.get(key, None)
Get(d, key) == IF key \in DOMAIN d THEN Some(d[key]) ELSE None

\* load_answers: the dictionary built from the rows, a later row of the
\* same key replacing the earlier one.
RECURSIVE load_answers(_)
load_answers(rows) ==
    IF rows = <<>> THEN <<>>
    ELSE LET front == load_answers(SubSeq(rows, 1, Len(rows) - 1))
             r == rows[Len(rows)]
         IN [k \in (DOMAIN front) \cup {r.key} |->
                IF k = r.key THEN r.answer2 ELSE front[k]]

\* Fault variant of ParseLines: only empty lines are skipped, so every other
\* line is handed to json.loads.
RECURSIVE ParseLinesNoBraceCheck(_, _)
ParseLinesNoBraceCheck(lines, acc) ==
    IF lines = <<>> THEN Returned(acc)
    ELSE LET l == Head(lines) IN
         IF l.first = "" THEN ParseLinesNoBraceCheck(Tail(lines), acc)
         ELSE IF l.json = None THEN Raised("JSONDecodeError")
         ELSE ParseLinesNoBraceCheck(Tail(lines), Append(acc, l.json[1]))

\* run_code, lines 207-216: the loop over out.splitlines().
RECURSIVE ParseLines(_, _)
ParseLines(lines, acc) ==
    IF lines = <<>> THEN Returned(acc)
    ELSE LET l == Head(lines) IN
         IF l.first = "" \/ l.first # "{" THEN ParseLines(Tail(lines), acc)
         ELSE IF l.json = None THEN Raised("JSONDecodeError")
         ELSE ParseLines(Tail(lines), Append(acc, l.json[1]))

\* RunResult as process_run_result creates it.
EmptyResult == [answer |-> Some(""), verified |-> FALSE, typical |-> None,
                average |-> None, median |-> None, high_bound |-> None,
                low_bound |-> None]

\* Fault variant of ApplyBlob: an event does not overwrite what an earlier
\* event of its kind has set.
ApplyBlobFirstWins(res, blob, in_file, amap) ==
    LET reason == Get(blob, "reason") IN
    IF reason = None THEN Returned(res)
    ELSE IF reason = Some("ferris-answer") THEN
        IF "answer" \notin DOMAIN blob THEN Raised("KeyError")
        ELSE IF res.answer # Some("") THEN Returned(res)
        ELSE LET answer == blob.answer
                 expected == IF in_file \in DOMAIN amap THEN amap[in_file] ELSE None
             IN Returned([res EXCEPT !.answer = answer,
                                     !.verified = (expected = answer)])
    ELSE IF reason = Some("benchmark-complete") THEN
        IF res.median # None THEN Returned(res)
        ELSE Returned([res EXCEPT !.typical = Some(blob.typical.estimate),
                                  !.average = Some(blob.mean.estimate),
                                  !.median = Some(blob.median.estimate),
                                  !.high_bound = Some(blob.typical.upper_bound),
                                  !.low_bound = Some(blob.typical.lower_bound)])
    ELSE Returned(res)

\* One iteration of the loop of process_run_result.
ApplyBlob(res, blob, in_file, amap) ==
    LET reason == Get(blob, "reason") IN
    IF reason = None THEN Returned(res)
    ELSE IF reason = Some("ferris-answer") THEN
        IF "answer" \notin DOMAIN blob THEN Raised("KeyError")
        ELSE LET answer == blob.answer
                 expected == IF in_file \in DOMAIN amap THEN amap[in_file] ELSE None
             IN Returned([res EXCEPT !.answer = answer,
                                     !.verified = (expected = answer)])
    ELSE IF reason = Some("benchmark-complete") THEN
        Returned([res EXCEPT !.typical = Some(blob.typical.estimate),
                             !.average = Some(blob.mean.estimate),
                             !.median = Some(blob.median.estimate),
                             !.high_bound = Some(blob.typical.upper_bound),
                             !.low_bound = Some(blob.typical.lower_bound)])
    ELSE Returned(res)

RECURSIVE FoldBlobs(_, _, _, _)
FoldBlobs(res, blobs, in_file, amap) ==
    IF blobs = <<>> THEN Returned(res)
    ELSE LET r == ApplyBlob(res, Head(blobs), in_file, amap) IN
         IF r.raised THEN r
         ELSE FoldBlobs(r.value, Tail(blobs), in_file, amap)

\* Fault variant of process_run_result: the result starts out scored
\* against the empty answer it starts with.
process_run_result_prescored(in_file, amap, lst) ==
    IF lst = None THEN Raised("TypeError")
    ELSE FoldBlobs([EmptyResult EXCEPT !.verified = (Get(amap, in_file) = Some(Some("")))],
                   lst[1], in_file, amap)

\* process_run_result: iterating over None raises TypeError.
process_run_result(in_file, amap, lst) ==
    IF lst = None THEN Raised("TypeError")
    ELSE FoldBlobs(EmptyResult, lst[1], in_file, amap)

\* An entry of tmpdir/inputs: its path below the inputs directory (a
\* sequence of names) and its kind.
FileEntry(p) == [path |-> p, kind |-> "file"]
DirEntry(p) == [path |-> p, kind |-> "dir"]

IsPrefix(p, q) == Len(p) <= Len(q) /\ SubSeq(q, 1, Len(p)) = p

\* Path.is_file, Path.is_dir, Path.unlink and shutil.rmtree on a tree.
is_file(tree, p) == FileEntry(p) \in tree
is_dir(tree, p) == DirEntry(p) \in tree
unlink(tree, p) == tree \ {FileEntry(p)}
rmtree(tree, p) == {e \in tree : ~IsPrefix(p, e.path)}

\* The names of the model that begin with a dot.
HiddenNames == {".gitkeep", ".h", ".cache"}

\* The patterns of load_input: "**/*" matches every entry below the
\* directory, hidden ones too; "**/.*" the entries whose name begins with
\* a dot.
Matches(pattern, p) ==
    \/ pattern = "**/*"
    \/ pattern = "**/.*" /\ p[Len(p)] \in HiddenNames

RECURSIVE PathsByDepth(_)
PathsByDepth(S) ==
    IF S = {} THEN <<>>
    ELSE LET p == CHOOSE x \in S : \A y \in S : Len(x) <= Len(y)
         IN <<p>> \o PathsByDepth(S \ {p})

\* Path.glob: the matching paths, a directory before what it holds.  The
\* generator is lazy; an entry removed before it is reached is met by the
\* loop as a path that is neither file nor directory.
glob(tree, pattern) ==
    PathsByDepth({e.path : e \in {x \in tree : Matches(pattern, x.path)}})

\* Fault variant of ClearLoop: files are unlinked, directories are left.
RECURSIVE ClearLoopFilesOnly(_, _)
ClearLoopFilesOnly(tree, paths) ==
    IF paths = <<>> THEN tree
    ELSE LET p == Head(paths)
             t == IF is_file(tree, p) THEN unlink(tree, p) ELSE tree
         IN ClearLoopFilesOnly(t, Tail(paths))

\* load_input, lines 166-170 and 172-176: one clearing loop.
RECURSIVE ClearLoop(_, _)
ClearLoop(tree, paths) ==
    IF paths = <<>> THEN tree
    ELSE LET p == Head(paths)
             t == IF is_file(tree, p) THEN unlink(tree, p)
                  ELSE IF is_dir(tree, p) THEN rmtree(tree, p)
                  ELSE tree
         IN ClearLoop(t, Tail(paths))

\* shutil.copy of a file into a directory: the file of that name is
\* created or overwritten.
copy(tree, name) == tree \cup {FileEntry(<<name>>)}

\* Fault variant of load_input: the file is copied, nothing is cleared.
load_input_no_clear(tree, file_name) == copy(tree, file_name)

\* load_input: both clearing loops, then the copy.
load_input(tree, file_name) ==
    LET t1 == ClearLoop(tree, glob(tree, "**/*"))
        t2 == ClearLoop(t1, glob(t1, "**/.*"))
    IN copy(t2, file_name)

\* str.isdigit and int() on the strings the model draws answers from.
IsDigit(s) == s \in {"41", "42"}
IntOf(s) == CASE s = "41" -> 41 [] s = "42" -> 42

\* One tuple of db_results in save_results.  r.answer.isdigit() raises
\* AttributeError when the answer is None.
RunRow(r) ==
    IF r.answer = None THEN Raised("AttributeError")
    ELSE Returned([time |-> r.median,
                   answer |-> IF IsDigit(r.answer[1]) THEN Some(IntOf(r.answer[1]))
                              ELSE None,
                   answer2 |-> r.answer])

\* Fault variant of save_results: only verified results get a row.
save_results_verified_only(rs) ==
    LET vs == SelectSeq(rs, LAMBDA r : r.verified) IN
    IF \E i \in DOMAIN vs : RunRow(vs[i]).raised THEN Raised("AttributeError")
    ELSE Returned([i \in DOMAIN vs |-> RunRow(vs[i]).value])

\* save_results: the rows handed to executemany.
save_results(rs) ==
    IF \E i \in DOMAIN rs : RunRow(rs[i]).raised THEN Raised("AttributeError")
    ELSE Returned([i \in DOMAIN rs |-> RunRow(rs[i]).value])

RECURSIVE SumSeq(_)
SumSeq(xs) == IF xs = <<>> THEN 0 ELSE xs[1][1] + SumSeq(Tail(xs))

\* Fault variant of mean: the mean of no data is 0.
mean_or_zero(xs) ==
    IF xs = <<>> THEN Returned([num |-> 0, den |-> 1])
    ELSE IF \E i \in DOMAIN xs : xs[i] = None THEN Raised("TypeError")
    ELSE Returned([num |-> SumSeq(xs), den |-> Len(xs)])

\* statistics.mean: StatisticsError on no data, TypeError on a None; the
\* mean is kept as the exact quotient num / den.
mean(xs) ==
    IF xs = <<>> THEN Raised("StatisticsError")
    ELSE IF \E i \in DOMAIN xs : xs[i] = None THEN Raised("TypeError")
    ELSE Returned([num |-> SumSeq(xs), den |-> Len(xs)])

IsVerified(r) == r.verified
Medians(rs) == [i \in DOMAIN rs |-> rs[i].median]
Averages(rs) == [i \in DOMAIN rs |-> rs[i].average]

\* Fault variant of verified_results: no filter on r.verified.
verified_results_unfiltered(rs) == rs

\* benchmark, line 57: the results the summary prefers.
verified_results(rs) == SelectSeq(rs, IsVerified)

\* benchmark, lines 57-75: the reply of the summary step, or the exception
\* statistics.mean raises.  The reply carries the two means themselves, the
\* arguments of ns; the text ns makes of them is not part of this record.
summary(rs) ==
    LET vs == verified_results(rs)
        sel == IF Len(vs) > 0 THEN vs ELSE rs
        title == IF Len(vs) > 0 THEN "Benchmark complete (Verified)"
                 ELSE "Benchmark complete (Unverified)"
        median == mean(Medians(sel))
        average == mean(Averages(sel))
    IN IF median.raised THEN median
       ELSE IF average.raised THEN average
       ELSE Returned([kind |-> "summary", title |-> title,
                      median |-> median.value, average |-> average.value])

\* The thresholds of ns.
Giga == 1000000000
Mega == 1000000
Kilo == 1000

\* Fault variant of ns: the thresholds are inclusive.
ns_inclusive(v) ==
    IF v >= Giga THEN [num |-> v, den |-> Giga, places |-> 2, unit |-> "s"]
    ELSE IF v >= Mega THEN [num |-> v, den |-> Mega, places |-> 2, unit |-> "ms"]
    ELSE IF v >= Kilo THEN [num |-> v, den |-> Kilo, places |-> 2, unit |-> "us"]
    ELSE [num |-> v, den |-> 1, places |-> 0, unit |-> "ns"]

\* ns: the text for v nanoseconds, as the quotient num / den it prints, the
\* number of decimal places it prints it with and the unit that follows
\* ("us" for the micro sign).
ns(v) ==
    IF v > Giga THEN [num |-> v, den |-> Giga, places |-> 2, unit |-> "s"]
    ELSE IF v > Mega THEN [num |-> v, den |-> Mega, places |-> 2, unit |-> "ms"]
    ELSE IF v > Kilo THEN [num |-> v, den |-> Kilo, places |-> 2, unit |-> "us"]
    ELSE [num |-> v, den |-> 1, places |-> 0, unit |-> "ns"]

\* int() of the user column, which save_results fills with str(author_id).
UserInt(s) == CASE s = "7" -> 7 [] s = "8" -> 8

\* WHERE day = ? AND part = ?
Where(rows, day, part) == SelectSeq(rows, LAMBDA r : r.day = day /\ r.part = part)

\* GROUP BY user: the distinct values of the column, NULL being one of them.
GroupBy(sel) == {sel[i].user : i \in DOMAIN sel}

\* Fault variant of MinTime: MAX(time).
MaxTime(sel, u) ==
    LET ts == {sel[i].time[1] : i \in {j \in DOMAIN sel : sel[j].user = u /\ sel[j].time # None}}
    IN IF ts = {} THEN None ELSE Some(CHOOSE t \in ts : \A x \in ts : x <= t)

\* MIN(time) of the group of user u: NULLs are ignored, and a group of
\* NULLs gives NULL.
MinTime(sel, u) ==
    LET ts == {sel[i].time[1] : i \in {j \in DOMAIN sel : sel[j].user = u /\ sel[j].time # None}}
    IN IF ts = {} THEN None ELSE Some(CHOOSE t \in ts : \A x \in ts : t <= x)

\* SQLite's order of two values of a column: NULL comes first.
NullsFirst(a, b) == a = None \/ (b # None /\ a[1] <= b[1])

\* The result sets the query can give: one row (user, MIN(time)) per group,
\* ordered by the time of the row the minimum comes from; rows of equal
\* time come in either order.
Query(rows, day, part) ==
    LET sel == Where(rows, day, part)
        groups == {<<u, MinTime(sel, u)>> : u \in GroupBy(sel)}
        n == Cardinality(groups)
    IN {s \in [1..n -> groups] :
          /\ \A i, j \in 1..n : i # j => s[i] # s[j]
          /\ \A i, j \in 1..n : i < j => NullsFirst(s[i][2], s[j][2])}

\* get_best_times, lines 295-300 and 302-306: the loop over the result set.
RECURSIVE Times(_)
Times(rs) ==
    IF rs = <<>> THEN <<>>
    ELSE LET user_id == Head(rs)[1]
             time == Head(rs)[2]
         IN IF user_id = None \/ time = None THEN Times(Tail(rs))
            ELSE <<(<<UserInt(user_id[1]), ns(time[1])>>)>> \o Times(Tail(rs))

\* The two plain-text replies of benchmark.
BuildFailedReply == [kind |-> "failure", text |-> "Build failed."]
UnhandledReply == [kind |-> "failure", text |-> "Unhandled exception while benchmarking"]

----------------------------------------------------------------------------
(* The environment the invocation runs in.                                  *)

Prefix(n) == SubSeq(InputNames, 1, n)

RECURSIVE RowsOf(_)
RowsOf(keys) ==
    IF keys = {} THEN <<>>
    ELSE LET k == CHOOSE x \in keys : TRUE
         IN Append(RowsOf(keys \ {k}), [key |-> k, answer2 |-> Some("42")])

\* The solutions rows of (day, part): any subset of the day's files has an
\* expected answer.
SolutionTables(fs) == {RowsOf(K) : K \in SUBSET {fs[i] : i \in DOMAIN fs}}

\* What tmpdir/inputs can hold once populate_tmp_dir has copied the runner
\* directory: any tree of these entries in which a directory comes with
\* every entry below it.
TemplateEntries == {FileEntry(<<".gitkeep">>), FileEntry(<<"stale.txt">>),
                    DirEntry(<<"old">>), FileEntry(<<"old", "x.txt">>),
                    FileEntry(<<"old", ".h">>),
                    DirEntry(<<".cache">>), FileEntry(<<".cache", "k">>)}

TemplateInputs ==
    {T \in SUBSET TemplateEntries :
        \A e \in T : Len(e.path) > 1 => DirEntry(SubSeq(e.path, 1, Len(e.path) - 1)) \in T}

\* No other invocation of benchmark() is modelled beside this one.
NoOthers ==
    /\ invs = <<>>
    /\ dirs = <<>>
    /\ last_ops = <<>>

Init ==
    /\ pc = "connect"
    /\ day_files \in {Prefix(n) : n \in 0..MaxFiles}
    /\ solutions \in SolutionTables(day_files)
    /\ tmpdir = "none"
    /\ inputs = {}
    /\ stale = {}
    /\ answers_map = <<>>
    /\ files = <<>>
    /\ idx = 0
    /\ out = <<>>
    /\ result_lst = None
    /\ result = None
    /\ results = <<>>
    /\ db_pending = <<>>
    /\ db_runs = <<>>
    /\ replies = <<>>
    /\ exc = NoExc
    /\ build_ok = "none"
    /\ staged = 0
    /\ runs = 0
    /\ destroyed = 0
    /\ best = None
    /\ shown = None
    /\ NoOthers

----------------------------------------------------------------------------
(* benchmark(), statement by statement.                                     *)

\* __exit__ of the TemporaryDirectory: the directory is removed.
Cleanup ==
    /\ tmpdir' = "deleted"
    /\ inputs' = {}
    /\ destroyed' = destroyed + 1

\* An exception of class e raised by the current statement reaches the
\* except clause.
Throw(e) ==
    /\ pc' = "except"
    /\ exc' = [type |-> e, at |-> pc]

\* Fault variant of Unwind: the directory is not removed (a mkdtemp without
\* the context manager).
UnwindLeak(e) ==
    /\ Throw(e)
    /\ UNCHANGED workspace

\* An exception raised inside the with block: the directory is removed on
\* the way to the except clause.
Unwind(e) ==
    /\ Cleanup
    /\ Throw(e)

\* Lines 36-38: Database().get(), db.cursor(), results = [].
Connect ==
    /\ pc = "connect"
    /\ \/ pc' = "mkdtemp" /\ UNCHANGED exc
       \/ Throw("DatabaseError")
    /\ UNCHANGED <<outside, env, stale, workspace, answers_map, files, idx, out, result_lst,
                   result, results, db_pending, db_runs, replies, build_ok,
                   staged, runs>>

\* Line 39: the with statement creates the directory.
MakeTmpDir ==
    /\ pc = "mkdtemp"
    /\ tmpdir' = "exists"
    /\ pc' = "populate_tmp_dir"
    /\ UNCHANGED <<outside, env, stale, inputs, destroyed, answers_map, files, idx, out,
                   result_lst, result, results, db_pending, db_runs, replies,
                   exc, build_ok, staged, runs>>

\* Line 40: populate_tmp_dir copies the runner and writes the code, or
\* raises (template missing, write failure).
PopulateTmpDir ==
    /\ pc = "populate_tmp_dir"
    /\ \/ /\ pc' = "build_code"
          /\ inputs' \in TemplateInputs
          /\ UNCHANGED <<tmpdir, destroyed, exc>>
       \/ Unwind("OSError")
    /\ UNCHANGED <<outside, env, stale, answers_map, files, idx, out, result_lst, result, results,
                   db_pending, db_runs, replies, build_ok, staged, runs>>

\* Fault variant of BuildCode: the return after "Build failed." is missing.
BuildCodeNoReturn ==
    /\ pc = "build_code"
    /\ \/ /\ build_ok' = "ok"
          /\ pc' = "load_answers"
          /\ UNCHANGED <<workspace, replies, exc>>
       \/ /\ build_ok' = "failed"
          /\ replies' = Append(replies, BuildFailedReply)
          /\ pc' = "load_answers"
          /\ UNCHANGED <<workspace, exc>>
       \/ /\ build_ok' = "error"
          /\ Unwind("APIError")
          /\ UNCHANGED replies
    /\ UNCHANGED <<outside, env, stale, answers_map, files, idx, out, result_lst, result, results,
                   db_pending, db_runs, staged, runs>>

\* Lines 41-44: build_code returns True, returns False on ContainerError
\* (the build command exited non-zero or was killed by timeout), or lets
\* another docker error through.  After a False the caller is told and
\* benchmark returns, leaving the with block.
BuildCode ==
    /\ pc = "build_code"
    /\ \/ /\ build_ok' = "ok"
          /\ pc' = "load_answers"
          /\ UNCHANGED <<workspace, replies, exc>>
       \/ /\ build_ok' = "failed"
          /\ replies' = Append(replies, BuildFailedReply)
          /\ Cleanup
          /\ pc' = "done"
          /\ UNCHANGED exc
       \/ /\ build_ok' = "error"
          /\ Unwind("APIError")
          /\ UNCHANGED replies
    /\ UNCHANGED <<outside, env, stale, answers_map, files, idx, out, result_lst, result, results,
                   db_pending, db_runs, staged, runs>>

\* Line 45: load_answers.
LoadAnswers ==
    /\ pc = "load_answers"
    /\ \/ /\ answers_map' = load_answers(solutions)
          /\ pc' = "get_input_files"
          /\ UNCHANGED <<workspace, exc>>
       \/ /\ Unwind("DatabaseError")
          /\ UNCHANGED answers_map
    /\ UNCHANGED <<outside, env, stale, files, idx, out, result_lst, result, results, db_pending,
                   db_runs, replies, build_ok, staged, runs>>

\* Line 46: get_input_files(day) lists the day's directory, or raises when
\* the directory is missing.  With no file the loop body never runs.
GetInputFiles ==
    /\ pc = "get_input_files"
    /\ \/ /\ files' = day_files
          /\ idx' = 0
          /\ pc' = IF day_files = <<>> THEN "save_results" ELSE "load_input"
          /\ UNCHANGED <<workspace, exc>>
       \/ /\ Unwind("OSError")
          /\ UNCHANGED <<files, idx>>
    /\ UNCHANGED <<outside, env, stale, answers_map, out, result_lst, result, results, db_pending,
                   db_runs, replies, build_ok, staged, runs>>

\* The loop variable in_file.
in_file == files[idx + 1]

\* Line 48: load_input clears tmpdir/inputs and copies in_file there; the
\* copy raises when the file is gone.
LoadInput ==
    /\ pc = "load_input"
    /\ staged' = staged + 1
    /\ stale' = inputs
    /\ \/ /\ inputs' = load_input(inputs, in_file)
          /\ pc' = "run_code"
          /\ UNCHANGED <<tmpdir, destroyed, exc>>
       \/ Unwind("OSError")
    /\ UNCHANGED <<outside, env, answers_map, files, idx, out, result_lst, result, results,
                   db_pending, db_runs, replies, build_ok, runs>>

\* Line 49: run_code starts the sandbox run.  ContainerError gives None;
\* another docker error propagates; otherwise the output is parsed line by
\* line and an exception of json.loads propagates.
RunCode ==
    /\ pc = "run_code"
    /\ runs' = runs + 1
    /\ stale' = {}
    /\ \/ /\ out' = <<>>
          /\ result_lst' = None
          /\ pc' = "process_run_result"
          /\ UNCHANGED <<workspace, exc>>
       \/ /\ Unwind("APIError")
          /\ UNCHANGED <<out, result_lst>>
       \/ \E o \in Outputs :
            LET parsed == ParseLines(o, <<>>) IN
            /\ out' = o
            /\ IF parsed.raised
               THEN Unwind(parsed.value) /\ UNCHANGED result_lst
               ELSE /\ result_lst' = Some(parsed.value)
                    /\ pc' = "process_run_result"
                    /\ UNCHANGED <<workspace, exc>>
    /\ UNCHANGED <<outside, env, answers_map, files, idx, result, results, db_pending,
                   db_runs, replies, build_ok, staged>>

\* Line 50: result = process_run_result(in_file, answers_map, result_lst).
ProcessRunResult ==
    /\ pc = "process_run_result"
    /\ LET r == process_run_result(in_file, answers_map, result_lst) IN
       IF r.raised
       THEN Unwind(r.value) /\ UNCHANGED result
       ELSE /\ result' = Some(r.value)
            /\ pc' = "append"
            /\ UNCHANGED <<workspace, exc>>
    /\ UNCHANGED <<outside, env, stale, answers_map, files, idx, out, result_lst, results,
                   db_pending, db_runs, replies, build_ok, staged, runs>>

\* Line 51 and the loop header: results.append(result), then the next file
\* or line 53.  The output, result_lst and result are not read again: they
\* are dropped here.
AppendResult ==
    /\ pc = "append"
    /\ results' = Append(results, result[1])
    /\ idx' = idx + 1
    /\ pc' = IF idx + 1 < Len(files) THEN "load_input" ELSE "save_results"
    /\ out' = <<>>
    /\ result_lst' = None
    /\ result' = None
    /\ UNCHANGED <<outside, env, stale, workspace, answers_map, files, db_pending, db_runs,
                   replies, exc, build_ok, staged, runs>>

\* Lines 53-54: save_results when there is a result; building a row or
\* executemany may raise.
SaveResults ==
    /\ pc = "save_results"
    /\ \/ /\ Len(results) > 0
          /\ LET rows == save_results(results) IN
             IF rows.raised
             THEN Unwind(rows.value) /\ UNCHANGED db_pending
             ELSE /\ db_pending' = db_pending \o rows.value
                  /\ pc' = "commit"
                  /\ UNCHANGED <<workspace, exc>>
       \/ /\ Len(results) > 0
          /\ Unwind("DatabaseError")
          /\ UNCHANGED db_pending
       \/ /\ Len(results) = 0
          /\ pc' = "exit_with"
          /\ UNCHANGED <<workspace, exc, db_pending>>
    /\ UNCHANGED <<outside, env, stale, answers_map, files, idx, out, result_lst, result, results,
                   db_runs, replies, build_ok, staged, runs>>

\* Fault variant of Commit: the transaction is left open.
CommitMissing ==
    /\ pc = "commit"
    /\ pc' = "exit_with"
    /\ UNCHANGED <<outside, env, stale, workspace, exc, db_runs, db_pending, answers_map,
                   files, idx, out, result_lst, result, results, replies, build_ok,
                   staged, runs>>

\* Line 55: db.commit().
Commit ==
    /\ pc = "commit"
    /\ \/ /\ db_runs' = db_runs \o db_pending
          /\ db_pending' = <<>>
          /\ pc' = "exit_with"
          /\ UNCHANGED <<workspace, exc>>
       \/ /\ Unwind("DatabaseError")
          /\ UNCHANGED <<db_runs, db_pending>>
    /\ UNCHANGED <<outside, env, stale, answers_map, files, idx, out, result_lst, result, results,
                   replies, build_ok, staged, runs>>

\* The end of the with block on the normal path.
ExitWith ==
    /\ pc = "exit_with"
    /\ Cleanup
    /\ pc' = "summary"
    /\ UNCHANGED <<outside, env, stale, answers_map, files, idx, out, result_lst, result, results,
                   db_pending, db_runs, replies, exc, build_ok, staged, runs>>

\* Lines 57-75: the summary and its reply.
Summarize ==
    /\ pc = "summary"
    /\ LET s == summary(results) IN
       IF s.raised
       THEN Throw(s.value) /\ UNCHANGED replies
       ELSE /\ replies' = Append(replies, s.value)
            /\ pc' = "done"
            /\ UNCHANGED exc
    /\ UNCHANGED <<outside, env, stale, workspace, answers_map, files, idx, out, result_lst,
                   result, results, db_pending, db_runs, build_ok, staged, runs>>

\* Fault variant of ExceptHandler: the exception is logged and no reply sent.
ExceptHandlerSilent ==
    /\ pc = "except"
    /\ pc' = "done"
    /\ UNCHANGED <<outside, env, stale, workspace, answers_map, files, idx, out, result_lst,
                   result, results, db_pending, db_runs, replies, exc, build_ok,
                   staged, runs>>

\* Lines 77-79: the except clause.
ExceptHandler ==
    /\ pc = "except"
    /\ replies' = Append(replies, UnhandledReply)
    /\ pc' = "done"
    /\ UNCHANGED <<outside, env, stale, workspace, answers_map, files, idx, out, result_lst,
                   result, results, db_pending, db_runs, exc, build_ok, staged,
                   runs>>

Next ==
    \/ Connect
    \/ MakeTmpDir
    \/ PopulateTmpDir
    \/ BuildCode
    \/ LoadAnswers
    \/ GetInputFiles
    \/ LoadInput
    \/ RunCode
    \/ ProcessRunResult
    \/ AppendResult
    \/ SaveResults
    \/ Commit
    \/ ExitWith
    \/ Summarize
    \/ ExceptHandler

Spec == Init /\ [][Next]_vars

----------------------------------------------------------------------------
(* The leaderboard query: get_best_times over any content of the runs      *)
(* table.  A row carries the columns the query reads.                       *)

\* Largest number of rows in the runs table.
MaxRows == 3

\* The rows the table draws from: runs of two users with a time or none,
\* and a run whose user is unset, on two days and both parts.
RunRows == [user : {Some("7"), Some("8")}, day : {1, 2}, part : {1, 2},
            time : {Some(900), Some(2500), None}]
           \cup [user : {None}, day : {1, 2}, part : {1, 2}, time : {Some(900)}]

\* No invocation of benchmark() is in progress.
NoInvocation ==
    /\ pc = "none"
    /\ day_files = <<>>
    /\ solutions = <<>>
    /\ tmpdir = "none"
    /\ inputs = {}
    /\ stale = {}
    /\ answers_map = <<>>
    /\ files = <<>>
    /\ idx = 0
    /\ out = <<>>
    /\ result_lst = None
    /\ result = None
    /\ results = <<>>
    /\ db_pending = <<>>
    /\ replies = <<>>
    /\ exc = NoExc
    /\ build_ok = "none"
    /\ staged = 0
    /\ runs = 0
    /\ destroyed = 0

InitBest ==
    /\ NoInvocation
    /\ db_runs = <<>>
    /\ best = None
    /\ shown = None
    /\ NoOthers

\* A committed INSERT INTO runs, by any invocation.
InsertRun ==
    /\ Len(db_runs) < MaxRows
    /\ \E row \in RunRows : db_runs' = Append(db_runs, row)
    /\ best' = None
    /\ UNCHANGED <<locals, shown, conc>>

\* get_best_times(day): the query for part 1, then for part 2.
GetBestTimes ==
    \E day \in {1, 2} :
    \E rs1 \in Query(db_runs, day, 1) :
    \E rs2 \in Query(db_runs, day, 2) :
        /\ best' = Some([day |-> day, times1 |-> Times(rs1), times2 |-> Times(rs2)])
        /\ UNCHANGED <<locals, db_runs, shown, conc>>

NextBest ==
    \/ InsertRun
    \/ GetBestTimes

SpecBest == InitBest /\ [][NextBest]_vars

----------------------------------------------------------------------------
(* Scoring: line 50 of benchmark for one input file, over any event list   *)
(* and any answer table.                                                    *)

\* Largest number of events in the list run_code returns.
MaxEvents == 3

\* The solutions rows of the file: none, or one whose answer2 is a text,
\* the empty text or NULL.
ScoreSolutions == {<<>>} \cup {<<[key |-> "a.txt", answer2 |-> a]>> :
                                  a \in {Some("42"), Some(""), None}}

\* The state in which line 50 is reached for the first file, "a.txt".
InitScore ==
    /\ pc = "process_run_result"
    /\ day_files = <<"a.txt">>
    /\ solutions \in ScoreSolutions
    /\ tmpdir = "exists"
    /\ inputs = {FileEntry(<<"a.txt">>)}
    /\ stale = {}
    /\ answers_map = load_answers(solutions)
    /\ files = day_files
    /\ idx = 0
    /\ \/ result_lst = None /\ out = <<>>
       \/ \E evs \in SeqsUpTo(Blobs, MaxEvents) :
             /\ result_lst = Some(evs)
             /\ out = [i \in DOMAIN evs |-> EventLine(evs[i])]
    /\ result = None
    /\ results = <<>>
    /\ db_pending = <<>>
    /\ db_runs = <<>>
    /\ replies = <<>>
    /\ exc = NoExc
    /\ build_ok = "ok"
    /\ staged = 1
    /\ runs = 1
    /\ destroyed = 0
    /\ best = None
    /\ shown = None
    /\ NoOthers

NextScore == ProcessRunResult

SpecScore == InitScore /\ [][NextScore]_vars

----------------------------------------------------------------------------
(* Concurrent invocations of benchmark().  The event loop runs one          *)
(* invocation at a time and switches at an await: build_code, run_code and  *)
(* ctx.reply.  A step is what one invocation does between two awaits; the   *)
(* container of a build or a run works on the mounted directory while the   *)
(* invocation waits.                                                        *)

\* Largest number of invocations in progress together.
MaxInvocations == 2

Invocations == 1..MaxInvocations

\* The names tempfile can give a directory.
DirNames == 1..MaxInvocations

\* The input files of the day the invocations benchmark.
ConcFiles == Prefix(MaxFiles)

FreeDir == [state |-> "free", owner |-> 0, inputs |-> {}]

\* Fault variant of mkdtemp: a fixed set of names, taken whether or not
\* the directory exists.
mkdtemp_any(tree) == DirNames

\* tempfile.TemporaryDirectory(): mkdtemp creates a directory that did not
\* exist; these are the names it can return.
mkdtemp(tree) == {d \in DirNames : tree[d].state = "free"}

\* One workspace operation of invocation i on directory d, with the state
\* and the creator of the directory when the operation starts.
Op(tree, i, d, name) ==
    [inv |-> i, dir |-> d, op |-> name, state |-> tree[d].state, owner |-> tree[d].owner]

\* The tree once invocation i has created d and populate_tmp_dir has copied
\* the runner into it.
Created(tree, i, d) ==
    [tree EXCEPT ![d] = [state |-> "exists", owner |-> i,
                         inputs |-> {FileEntry(<<".gitkeep">>)}]]

\* The tree once load_input has staged file_name in d.
Staged(tree, d, file_name) ==
    [tree EXCEPT ![d].inputs = load_input(tree[d].inputs, file_name)]

\* The tree once the TemporaryDirectory d is cleaned up.
Removed(tree, d) == [tree EXCEPT ![d] = FreeDir]

InitConc ==
    /\ NoInvocation
    /\ db_runs = <<>>
    /\ best = None
    /\ shown = None
    /\ invs = [i \in Invocations |-> [pc |-> "start", dir |-> 0, k |-> 0]]
    /\ dirs = [d \in DirNames |-> FreeDir]
    /\ last_ops = <<>>

\* Lines 36-41: up to the await of build_code.  The directory is created
\* and populated; a failure of populate_tmp_dir removes it again.
Prepare(i) ==
    /\ invs[i].pc = "start"
    /\ \E d \in mkdtemp(dirs) :
         LET made == Created(dirs, i, d) IN
         \/ /\ dirs' = made
            /\ invs' = [invs EXCEPT ![i] = [pc |-> "build", dir |-> d, k |-> 0]]
            /\ last_ops' = <<Op(dirs, i, d, "prepare")>>
         \/ /\ dirs' = Removed(made, d)
            /\ invs' = [invs EXCEPT ![i] = [pc |-> "reply", dir |-> d, k |-> 0]]
            /\ last_ops' = <<Op(dirs, i, d, "prepare"), Op(made, i, d, "destroy")>>
    /\ UNCHANGED <<locals, db_runs, best, shown>>

\* Lines 41-49: the build has ended.  After a success the first file is
\* staged and the invocation awaits its run; after a failed build it awaits
\* ctx.reply("Build failed.") inside the with block; after an exception the
\* directory is removed and the invocation awaits the reply of line 79.
BuildEnd(i) ==
    LET d == invs[i].dir IN
    /\ invs[i].pc = "build"
    /\ \/ /\ dirs' = Staged(dirs, d, ConcFiles[1])
          /\ invs' = [invs EXCEPT ![i].pc = "run"]
          /\ last_ops' = <<Op(dirs, i, d, "build"), Op(dirs, i, d, "stage")>>
       \/ /\ invs' = [invs EXCEPT ![i].pc = "told"]
          /\ last_ops' = <<Op(dirs, i, d, "build")>>
          /\ UNCHANGED dirs
       \/ /\ dirs' = Removed(dirs, d)
          /\ invs' = [invs EXCEPT ![i].pc = "reply"]
          /\ last_ops' = <<Op(dirs, i, d, "build"), Op(dirs, i, d, "destroy")>>
    /\ UNCHANGED <<locals, db_runs, best, shown>>

\* Lines 49-55 and 48: a run has ended.  The next file is staged and run;
\* after the last file, or on an exception, the directory is removed.
RunEnd(i) ==
    LET d == invs[i].dir
        k == invs[i].k
    IN
    /\ invs[i].pc = "run"
    /\ \/ /\ k + 1 < Len(ConcFiles)
          /\ dirs' = Staged(dirs, d, ConcFiles[k + 2])
          /\ invs' = [invs EXCEPT ![i].k = k + 1]
          /\ last_ops' = <<Op(dirs, i, d, "run"), Op(dirs, i, d, "stage")>>
       \/ /\ dirs' = Removed(dirs, d)
          /\ invs' = [invs EXCEPT ![i].pc = "reply"]
          /\ last_ops' = <<Op(dirs, i, d, "run"), Op(dirs, i, d, "destroy")>>
    /\ UNCHANGED <<locals, db_runs, best, shown>>

\* Lines 43-44: "Build failed." is sent; the return leaves the with block
\* and the directory is removed.
BuildFailed(i) ==
    LET d == invs[i].dir IN
    /\ invs[i].pc = "told"
    /\ dirs' = Removed(dirs, d)
    /\ invs' = [invs EXCEPT ![i].pc = "done"]
    /\ last_ops' = <<Op(dirs, i, d, "destroy")>>
    /\ UNCHANGED <<locals, db_runs, best, shown>>

\* Lines 75 and 79: the reply is sent and the invocation is over.
Reply(i) ==
    /\ invs[i].pc = "reply"
    /\ invs' = [invs EXCEPT ![i].pc = "done"]
    /\ last_ops' = <<>>
    /\ UNCHANGED <<locals, db_runs, best, shown, dirs>>

NextConc ==
    \E i \in Invocations :
        \/ Prepare(i)
        \/ BuildEnd(i)
        \/ RunEnd(i)
        \/ BuildFailed(i)
        \/ Reply(i)

SpecConc == InitConc /\ [][NextConc]_vars

----------------------------------------------------------------------------
(* The display of a time: ns on the values around its thresholds.          *)

\* How far around a threshold the arguments of ns are drawn.
NsSpread == 20

NsInputs == {0, 2 * Giga} \cup
            UNION {(t - NsSpread)..(t + NsSpread) : t \in {Kilo, Mega, Giga}}

InitNs ==
    /\ NoInvocation
    /\ db_runs = <<>>
    /\ best = None
    /\ shown = None
    /\ NoOthers

\* A call of ns, as lines 72-73 and 300 make it.
NsCall ==
    /\ \E v \in NsInputs : shown' = Some([v |-> v, text |-> ns(v)])
    /\ UNCHANGED <<locals, db_runs, best, conc>>

NextNs == NsCall

SpecNs == InitNs /\ [][NextNs]_vars

----------------------------------------------------------------------------
(* Properties.                                                              *)

WithBlock == {"populate_tmp_dir", "build_code", "load_answers", "get_input_files",
              "load_input", "run_code", "process_run_result", "append",
              "save_results", "commit", "exit_with"}

\* The per-input loop has ended, normally or because the absent result of
\* a failed sandbox run stopped it; no other fault cut the loop short.
LoopEnded ==
    /\ build_ok = "ok"
    /\ \/ pc \in {"save_results", "commit", "exit_with", "summary"}
       \/ pc \in {"except", "done"} /\ exc.at \in {"none", "save_results", "commit", "summary"}
       \/ exc = [type |-> "TypeError", at |-> "process_run_result"]

\* C1: once the per-input loop of an invocation whose build succeeded has
\* ended, results holds one InputResult per input file of the day, however
\* many sandbox runs failed.
C1_OneResultPerInputFile ==
    LoopEnded => Len(results) = Len(day_files)

NumericFields == {"typical", "average", "median", "high_bound", "low_bound"}

\* C2: a sandbox run that failed (run_code returned None) is scored into an
\* InputResult with verified = FALSE and the five numeric fields absent, and
\* the loop goes on to append it.
C2_FailedRunRecorded ==
    [][(pc = "process_run_result" /\ result_lst = None) =>
          /\ pc' = "append"
          /\ result' # None
          /\ result'[1].verified = FALSE
          /\ \A f \in NumericFields : result'[1][f] = None]_vars

\* C3: after a failed build nothing is staged, run or written and the only
\* reply is "Build failed."; a sandbox run or a staged input implies that
\* the build of this invocation succeeded.
C3_BuildFailureAborts ==
    /\ build_ok = "failed" =>
          /\ pc = "done"
          /\ staged = 0
          /\ runs = 0
          /\ db_pending = <<>>
          /\ db_runs = <<>>
          /\ replies = <<BuildFailedReply>>
          /\ exc = NoExc
    /\ (runs > 0 \/ staged > 0) => build_ok = "ok"

C3_Witness == build_ok = "failed" /\ pc = "done" /\ tmpdir = "deleted"

\* C4: the workspace is destroyed at most once, exists only while the with
\* block runs, and once the block is left (summary, except clause, end of
\* the invocation) a workspace that was created has been destroyed exactly
\* once.
C4_WorkspaceDestroyedOnce ==
    /\ destroyed <= 1
    /\ tmpdir = "exists" => pc \in WithBlock
    /\ (pc \in {"summary", "except", "done"} /\ tmpdir # "none") =>
          (tmpdir = "deleted" /\ destroyed = 1)

C4_Witness ==
    /\ pc = "done"
    /\ exc = [type |-> "KeyError", at |-> "process_run_result"]
    /\ tmpdir = "deleted"
    /\ destroyed = 1

\* C5: an invocation that has ended has sent exactly one reply, a summary or
\* one of the two failure texts; before it ends it has sent none.
C5_ExactlyOneOutcome ==
    /\ pc = "done" =>
          /\ Len(replies) = 1
          /\ \/ replies[1].kind = "summary"
             \/ replies[1] \in {BuildFailedReply, UnhandledReply}
    /\ pc # "done" => replies = <<>>

C5_Witness ==
    /\ pc = "done"
    /\ exc.at = "summary"
    /\ replies = <<UnhandledReply>>

IsAnswerEvent(b) == "reason" \in DOMAIN b /\ b.reason = "ferris-answer"
AnswerEvents(lst) == SelectSeq(lst, IsAnswerEvent)

\* C6: when the events hold an answer event, the scored result is verified
\* exactly when the answer table has an entry for the input file and the
\* last reported answer equals it; without an entry it is never verified.
C6_VerifiedIffExactMatch ==
    (pc = "append" /\ result_lst # None /\ AnswerEvents(result_lst[1]) # <<>>) =>
        LET evs == AnswerEvents(result_lst[1])
            last == evs[Len(evs)].answer
        IN result[1].verified =
              (in_file \in DOMAIN answers_map /\ answers_map[in_file] = last)

RECURSIVE SumOver(_, _, _)
SumOver(S, rs, field) ==
    IF S = {} THEN 0
    ELSE LET i == CHOOSE x \in S : TRUE
         IN rs[i][field][1] + SumOver(S \ {i}, rs, field)

VerifiedSet == {i \in DOMAIN results : results[i].verified}
SummaryBasis == IF VerifiedSet # {} THEN VerifiedSet ELSE DOMAIN results

\* C7: a summary sent to the caller is the mean of the medians and the mean
\* of the averages of the verified results when there is one, and of all
\* results only when none is verified.
C7_SummaryPrefersVerified ==
    (pc = "done" /\ replies # <<>> /\ replies[1].kind = "summary") =>
        LET r == replies[1] IN
        /\ r.title = IF VerifiedSet # {} THEN "Benchmark complete (Verified)"
                     ELSE "Benchmark complete (Unverified)"
        /\ r.median = [num |-> SumOver(SummaryBasis, results, "median"),
                       den |-> Cardinality(SummaryBasis)]
        /\ r.average = [num |-> SumOver(SummaryBasis, results, "average"),
                        den |-> Cardinality(SummaryBasis)]

C7_Witness ==
    /\ pc = "done"
    /\ replies # <<>>
    /\ replies[1].kind = "summary"
    /\ replies[1].title = "Benchmark complete (Verified)"
    /\ \E i, j \in DOMAIN results :
          /\ results[i].verified
          /\ ~results[j].verified
          /\ results[j].median # None
          /\ results[j].median # results[i].median

\* C8: the summary step raises only for an empty list of results; with at
\* least one result the invocation that reaches it sends a summary.
C8_SummaryFailsOnlyOnEmpty ==
    /\ exc.at = "summary" => results = <<>>
    /\ (pc = "done" /\ build_ok = "ok" /\ results = <<>> /\ exc.at = "none") =>
          replies # <<UnhandledReply>>

HasBadLine(o) == \E i \in DOMAIN o : o[i].first = "{" /\ o[i].json = None
IsEventLine(l) == l.first = "{" /\ l.json # None
EventsOf(o) == LET ev == SelectSeq(o, IsEventLine)
               IN [i \in DOMAIN ev |-> ev[i].json[1]]

\* C9: a line that starts with { but does not decode is skipped: run_code
\* raises nothing for it and returns the events of the valid lines.
C9_MalformedLineSkipped ==
    HasBadLine(out) =>
        /\ exc.at # "run_code"
        /\ pc \in {"process_run_result", "append"} => result_lst = Some(EventsOf(out))

\* C10: for an output without a malformed line, run_code raises no decode
\* error and returns exactly the events of the lines starting with {, once
\* each and in order.
C10_ParserKeepsValidEvents ==
    ~HasBadLine(out) =>
        /\ exc # [type |-> "JSONDecodeError", at |-> "run_code"]
        /\ (pc \in {"process_run_result", "append"} /\ result_lst # None) =>
              result_lst[1] = EventsOf(out)

C10_Witness ==
    /\ pc = "process_run_result"
    /\ result_lst # None
    /\ Len(result_lst[1]) = 1
    /\ \E i, j \in DOMAIN out : out[i] \in {EmptyLine, TextLine} /\ IsEventLine(out[j])

\* C11: when load_input has returned, the inputs area holds exactly one
\* entry, the file just staged, whatever files, directories and hidden
\* entries it held before.
C11_StageLeavesOnlyTheFile ==
    pc = "run_code" => inputs = {FileEntry(<<in_file>>)}

C11_Witness ==
    /\ pc = "run_code"
    /\ stale = TemplateEntries
    /\ inputs = {FileEntry(<<in_file>>)}

\* The statements up to the end of the per-input loop.
UpToLoop == {"connect", "mkdtemp", "populate_tmp_dir", "build_code", "load_answers",
             "get_input_files", "load_input", "run_code", "process_run_result",
             "append"}

\* C12: rows are written only when every input file of the day has its
\* InputResult, all at once and one per InputResult in the order of the
\* results; an invocation that stopped in the build or in the loop has
\* written and committed nothing.
C12_RowsOnlyAfterAllResults ==
    LET rows == db_runs \o db_pending IN
    /\ rows # <<>> =>
          /\ idx = Len(day_files)
          /\ Len(results) = Len(day_files)
          /\ Len(rows) = Len(results)
          /\ \A i \in DOMAIN rows :
                /\ rows[i].time = results[i].median
                /\ rows[i].answer2 = results[i].answer
    /\ (pc \in UpToLoop \/ exc.at \in UpToLoop \/ build_ok = "failed") => rows = <<>>

C12_Witness ==
    /\ pc = "done"
    /\ db_pending = <<>>
    /\ Len(db_runs) = 2
    /\ db_runs[1] # db_runs[2]

\* The users with a run of (day, part) whose user and time are both set,
\* and the times of such a user.
BoardUsers(day, part) ==
    {r.user[1] : r \in {db_runs[i] : i \in {j \in DOMAIN db_runs :
        /\ db_runs[j].day = day /\ db_runs[j].part = part
        /\ db_runs[j].user # None /\ db_runs[j].time # None}}}

BoardTimes(day, part, u) ==
    {db_runs[i].time[1] : i \in {j \in DOMAIN db_runs :
        /\ db_runs[j].day = day /\ db_runs[j].part = part
        /\ db_runs[j].user = Some(u) /\ db_runs[j].time # None}}

IsLeast(t, S) == t \in S /\ \A x \in S : t <= x

\* lst is the leaderboard of (day, part): one entry per user of BoardUsers,
\* each with the text of the user's least time, the least times ascending.
IsBoard(lst, day, part) ==
    LET users == BoardUsers(day, part) IN
    /\ Len(lst) = Cardinality(users)
    /\ \A u \in users : \E i \in DOMAIN lst :
          /\ lst[i][1] = UserInt(u)
          /\ \E t \in BoardTimes(day, part, u) :
                /\ IsLeast(t, BoardTimes(day, part, u))
                /\ lst[i][2] = ns(t)
    /\ \A i, j \in DOMAIN lst : i < j =>
          \A u, w \in users : lst[i][1] = UserInt(u) /\ lst[j][1] = UserInt(w) =>
              \A t \in BoardTimes(day, part, u), x \in BoardTimes(day, part, w) :
                  IsLeast(t, BoardTimes(day, part, u)) /\ IsLeast(x, BoardTimes(day, part, w))
                      => t <= x

\* C13: for every content of the runs table and every day, each of the two
\* lists get_best_times returns holds exactly one entry per distinct user
\* with a run of that (day, part) whose user and time are set, the entry
\* shows that user's minimum time, the entries are in ascending order of
\* that minimum, and rows with an unset user or time give no entry.
C13_BestTimesPerUser ==
    best # None =>
        /\ IsBoard(best[1].times1, best[1].day, 1)
        /\ IsBoard(best[1].times2, best[1].day, 2)

\* Two users on the board of day 1, part 1, the slower one with two times,
\* beside a row without user and a row without time.
C13_Witness ==
    /\ best # None
    /\ best[1].day = 1
    /\ Len(best[1].times1) = 2
    /\ best[1].times1[1] = <<8, ns(900)>>
    /\ best[1].times1[2] = <<7, ns(2500)>>
    /\ \E i \in DOMAIN db_runs : db_runs[i].user = None \/ db_runs[i].time = None

IsStatsEvent(b) == "reason" \in DOMAIN b /\ b.reason = "benchmark-complete"
StatsEvents(lst) == SelectSeq(lst, IsStatsEvent)

\* dict.get(in_file, None) on the answer table.
Expected == IF in_file \in DOMAIN answers_map THEN answers_map[in_file] ELSE None

\* C14: the scored result carries the answer of the last answer event and
\* the verified flag that answer gives, and the five numbers of the last
\* statistics event (none when there is no statistics event), whatever
\* events of the other kind, of another discriminator or of none come
\* before, between or after them.
C14_LastWriteWins ==
    (pc = "append" /\ result_lst # None) =>
        LET lst == result_lst[1]
            as == AnswerEvents(lst)
            ss == StatsEvents(lst)
            r == result[1]
        IN /\ as # <<>> =>
                /\ r.answer = as[Len(as)].answer
                /\ r.verified = (Expected = as[Len(as)].answer)
           /\ ss # <<>> =>
                LET e == ss[Len(ss)] IN
                /\ r.typical = Some(e.typical.estimate)
                /\ r.average = Some(e.mean.estimate)
                /\ r.median = Some(e.median.estimate)
                /\ r.high_bound = Some(e.typical.upper_bound)
                /\ r.low_bound = Some(e.typical.lower_bound)
           /\ ss = <<>> =>
                /\ r.typical = None /\ r.average = None /\ r.median = None
                /\ r.high_bound = None /\ r.low_bound = None

\* A wrong answer, a statistics event, then the right answer: the later
\* answer wins and the statistics stay.
C14_Witness ==
    /\ pc = "append"
    /\ result_lst = Some(<<AnswerBlob(Some("41")), StatsBlob(Stats2), AnswerBlob(Some("42"))>>)
    /\ answers_map = [k \in {"a.txt"} |-> Some("42")]
    /\ result[1].verified
    /\ result[1].answer = Some("42")
    /\ result[1].median = Some(Stats2.median.estimate)

\* C19: a result is verified only when the event list holds an answer
\* event; without one the result keeps the answer "" and is not verified,
\* whatever the answer table holds for the file, the empty text included.
C19_VerifiedNeedsAnswerEvent ==
    (pc = "append" /\ result_lst # None /\ AnswerEvents(result_lst[1]) = <<>>) =>
        /\ result[1].answer = Some("")
        /\ ~result[1].verified

\* Statistics only, and a table entry equal to the empty text.
C19_Witness ==
    /\ pc = "append"
    /\ result_lst = Some(<<StatsBlob(Stats1)>>)
    /\ Expected = Some("")
    /\ result[1].answer = Some("")
    /\ ~result[1].verified
    /\ result[1].median # None

SummarySent == \E i \in DOMAIN replies : replies[i].kind = "summary"

\* C15 as claimed: the summary is computed before the rows are saved, so
\* rows exist only once a summary was made, and an invocation whose summary
\* step failed has persisted no row.
C15_SummaryBeforeSave ==
    /\ (db_pending # <<>> \/ db_runs # <<>>) => SummarySent
    /\ exc.at = "summary" => db_runs = <<>>

\* C15 as amended: the rows are saved and committed before the summary is
\* computed.  When the summary step is reached, has failed or has replied,
\* the loop is over, no row is pending and the table holds one committed row
\* per result; the summary reply is the last step.
C15_SaveBeforeSummary ==
    /\ (pc = "summary" \/ exc.at = "summary" \/ SummarySent) =>
          /\ idx = Len(files)
          /\ db_pending = <<>>
          /\ Len(db_runs) = Len(results)
    /\ SummarySent => pc = "done"

\* A summary step that failed after the rows were committed.
C15_Witness ==
    /\ exc.at = "summary"
    /\ Len(results) = 2
    /\ Len(db_runs) = 2

\* C16: when a sandbox run is about to start for the loop's file, that file
\* was staged by the load_input call just before (as many stagings as runs,
\* plus this one), and the inputs area holds that one file and nothing
\* else: no file of an earlier iteration, no second input.
C16_RunSeesOnlyItsInput ==
    pc = "run_code" =>
        /\ staged = runs + 1
        /\ idx = runs
        /\ Cardinality(inputs) = 1
        /\ \A e \in inputs : e.kind = "file" /\ e.path = <<files[runs + 1]>>

\* The second run: the first file was in the inputs area when the second
\* was staged.
C16_Witness ==
    /\ pc = "run_code"
    /\ runs = 1
    /\ stale = {FileEntry(<<"a.txt">>)}
    /\ inputs = {FileEntry(<<"b.txt">>)}

\* The invocations inside their with block.
Live == {i \in Invocations : invs[i].pc \in {"build", "run", "told"}}

\* C17: with invocations interleaved at their awaits, every prepare
\* creates a directory that did not exist, every build, stage, run and
\* destroy of an invocation acts on a directory that exists and that this
\* invocation created, and while an invocation waits inside its with block
\* its directory exists, is its own, is no other invocation's and, during a
\* run, holds the file this invocation staged.
C17_OwnWorkspaceOnly ==
    /\ \A n \in DOMAIN last_ops :
          LET o == last_ops[n] IN
          IF o.op = "prepare" THEN o.state = "free"
          ELSE o.state = "exists" /\ o.owner = o.inv
    /\ \A i \in Live :
          /\ dirs[invs[i].dir].state = "exists"
          /\ dirs[invs[i].dir].owner = i
          /\ invs[i].pc = "run" =>
                dirs[invs[i].dir].inputs = {FileEntry(<<ConcFiles[invs[i].k + 1]>>)}
    /\ \A i, j \in Live : i # j => invs[i].dir # invs[j].dir

\* Two runs in progress on different files, the second invocation having
\* just staged its file.
C17_Witness ==
    /\ invs[1].pc = "run" /\ invs[1].k = 1
    /\ invs[2].pc = "run" /\ invs[2].k = 0
    /\ Len(last_ops) = 2 /\ last_ops[2].inv = 2 /\ last_ops[2].op = "stage"

\* C18 as claimed: the unit is chosen by inclusive thresholds, seconds from
\* 1e9, milliseconds from 1e6, microseconds from 1e3, nanoseconds below.
C18_InclusiveThresholds ==
    shown # None =>
        LET v == shown[1].v IN
        shown[1].text.unit = IF v >= Giga THEN "s"
                             ELSE IF v >= Mega THEN "ms"
                             ELSE IF v >= Kilo THEN "us"
                             ELSE "ns"

\* C18 as amended: the thresholds are exclusive.  Seconds above 1e9,
\* milliseconds above 1e6 up to 1e9, microseconds above 1e3 up to 1e6,
\* nanoseconds up to 1e3, each value divided by its unit's threshold and
\* printed with two decimal places, nanoseconds with none; so 1000,
\* 1000000 and 1000000000 are shown as 1000 ns, 1000.00 microseconds and
\* 1000.00 milliseconds.
C18_StrictThresholds ==
    shown # None =>
        LET v == shown[1].v
            t == shown[1].text
        IN /\ t.num = v
           /\ v > Giga => t.unit = "s" /\ t.den = Giga /\ t.places = 2
           /\ (Mega < v /\ v <= Giga) => t.unit = "ms" /\ t.den = Mega /\ t.places = 2
           /\ (Kilo < v /\ v <= Mega) => t.unit = "us" /\ t.den = Kilo /\ t.places = 2
           /\ v <= Kilo => t.unit = "ns" /\ t.den = 1 /\ t.places = 0

\* 1e9 ns is shown in milliseconds.
C18_Witness ==
    /\ shown # None
    /\ shown[1].v = Giga
    /\ shown[1].text.unit = "ms"
    /\ shown[1].text.den = Mega

\* C20: when the day has no input file, an invocation whose build
\* succeeded stages and runs nothing and writes and commits no row, and
\* when it is over the caller has received the failure reply and no
\* summary.
C20_NoInputsFails ==
    (build_ok = "ok" /\ day_files = <<>>) =>
        /\ staged = 0
        /\ runs = 0
        /\ db_pending = <<>>
        /\ db_runs = <<>>
        /\ ~SummarySent
        /\ pc = "done" => replies = <<UnhandledReply>>

\* The directory was listed and was empty, and the summary step failed on
\* the mean of no data.
C20_Witness ==
    /\ pc = "done"
    /\ build_ok = "ok"
    /\ day_files = <<>>
    /\ exc = [type |-> "StatisticsError", at |-> "summary"]
    /\ replies = <<UnhandledReply>>
    /\ db_runs = <<>>

====
